---- MODULE Spec2Model ----
(***************************************************************************)
(* The two fixture generators of test_fixtures/: makewave.py (cloud TTS,   *)
(* WAV + OGG + Opus + FLAC + best-effort AAC) and selfhosted-makewave.py   *)
(* (local TTS, WAV only).  A run is one process executing one script top   *)
(* to bottom; the working directory is the only state runs share.          *)
(***************************************************************************)
EXTENDS Integers, Sequences, FiniteSets, TLC

VARIABLES fs, prog, argv, pc, audio, out, exit, failedAt, ran, synths,
          wrote, start, overlapped

vars == <<fs, prog, argv, pc, audio, out, exit, failedAt, ran, synths,
          wrote, start, overlapped>>

(* ------------------------------ bounds --------------------------------- *)

\* Largest number of text tokens on a command line.
MaxArgs == 2

\* The first and the second run in the directory.
Runs == {1, 2}

\* Command-line tokens, as sequences of characters.
Words == {<<"h", "i">>, <<"y", "o">>}

Programs == {"makewave", "selfhosted"}

RECURSIVE SeqsUpTo(_, _)
SeqsUpTo(S, n) ==
    IF n = 0 THEN {<<>>}
    ELSE LET shorter == SeqsUpTo(S, n - 1)
         IN  shorter \cup {Append(s, x) : s \in {t \in shorter : Len(t) = n - 1}, x \in S}

\* The text tokens a run may be invoked with (none included).
ArgLists == SeqsUpTo(Words, MaxArgs)

(* --------------------------- the directory ----------------------------- *)

Paths == {"test.mp3", "test.wav", "test.ogg", "test.opus", "test.flac", "test.aac"}

\* A path with no file.
NoFile ==
    [kind |-> "absent", fmt |-> "none", rate |-> 0, ch |-> 0, width |-> 0,
     origin |-> 0, writer |-> 0]

\* What a writer that failed after opening its output may leave behind.
Partial(r) ==
    [kind |-> "partial", fmt |-> "none", rate |-> 0, ch |-> 0, width |-> 0,
     origin |-> 0, writer |-> r]

\* A complete audio file: origin is the run whose synthesis the samples come
\* from, writer the run that wrote the file (0: before the first run).
File(fmt, rate, ch, width, origin, writer) ==
    [kind |-> "audio", fmt |-> fmt, rate |-> rate, ch |-> ch, width |-> width,
     origin |-> origin, writer |-> writer]

\* Format, sample rate, channel count and bit depth of a path's content.
Shape(f) == [kind |-> f.kind, fmt |-> f.fmt, rate |-> f.rate, ch |-> f.ch, width |-> f.width]

EmptyDir == [p \in Paths |-> NoFile]

\* A directory holding the fixtures some earlier session left behind.
StaleDir ==
    [p \in Paths |->
        CASE p = "test.mp3"  -> File("mp3", 24000, 1, 2, 0, 0)
          [] p = "test.wav"  -> File("wav", 44100, 2, 2, 0, 0)
          [] p = "test.ogg"  -> File("ogg", 44100, 2, 2, 0, 0)
          [] p = "test.opus" -> File("opus", 44100, 2, 2, 0, 0)
          [] p = "test.flac" -> File("flac", 44100, 2, 2, 0, 0)
          [] OTHER           -> File("aac", 44100, 2, 2, 0, 0)]

InitDirs == {EmptyDir, StaleDir}

(* --------------------------- pure functions ---------------------------- *)

\* sys.argv[0] of each script.
ScriptName(p) == IF p = "makewave" THEN "makewave.py" ELSE "selfhosted-makewave.py"

\* len(sys.argv) < 2
MissingTextOffByOne(a) == Len(a) < 1
MissingText(a) == Len(a) < 2

UsageLine(p) ==
    IF p = "makewave" THEN "Usage: python makewave.py \"Your text here\""
    ELSE "Usage: python generate_wav.py \"Your text here\""

\* " ".join(tokens), on sequences of characters.
RECURSIVE JoinNoSeparator(_)
JoinNoSeparator(toks) ==
    IF toks = <<>> THEN <<>> ELSE toks[1] \o JoinNoSeparator(Tail(toks))

RECURSIVE Join(_)
Join(toks) ==
    IF toks = <<>> THEN <<>>
    ELSE IF Len(toks) = 1 THEN toks[1]
    ELSE toks[1] \o <<" ">> \o Join(Tail(toks))

\* text = " ".join(sys.argv[1:])
Text(r) == Join(Tail(argv[r]))

\* The decoded samples a run holds in memory.
NoAudio == [rate |-> 0, ch |-> 0, width |-> 0, origin |-> 0]

\* What the TTS backends hand back before normalisation (theirs to choose).
SynthFormats ==
    {[rate |-> 24000, ch |-> 1, width |-> 2], [rate |-> 44100, ch |-> 2, width |-> 4]}

\* AudioSegment.from_mp3 / from_wav of a complete file.
Decoded(f) == [rate |-> f.rate, ch |-> f.ch, width |-> f.width, origin |-> f.origin]

set_frame_rate_noop(a, rate) == a
set_frame_rate(a, rate) == [a EXCEPT !.rate = rate]
set_channels_noop(a, ch) == a
set_channels(a, ch) == [a EXCEPT !.ch = ch]
set_sample_width(a, width) == [a EXCEPT !.width = width]

\* The normalisation line of each script.
Normalized(p, a) ==
    IF p = "makewave"
    THEN set_sample_width(set_channels(set_frame_rate(a, 48000), 1), 2)
    ELSE set_sample_width(set_channels(set_frame_rate(a, 16000), 1), 2)

\* audio.export(path, format=fmt) with no encoder parameters.
Exported(a, fmt, r) == File(fmt, a.rate, a.ch, a.width, a.origin, r)

\* audio.export(path, format=fmt, parameters=["-ar", ar, "-ac", ac, ...]).
ExportedWith(a, fmt, ar, ac, r) == File(fmt, ar, ac, a.width, a.origin, r)

\* opusenc --bitrate 64 test.wav test.opus: encodes what test.wav holds.
Opusenc(wav, r) == File("opus", wav.rate, wav.ch, wav.width, wav.origin, r)

Mp3Path == "test.mp3"
WavPath == "test.wav"
OggPath == "test.ogg"
OpusPath == "test.opus"
FlacPathTypo == "test.aac"
FlacPath == "test.flac"
AacPath == "test.aac"

\* The input file named on opusenc's command line (wav_path).
OpusInputNotYetWritten == FlacPath
OpusInput == WavPath

SavedLine(p) ==
    CASE p = "test.wav"  -> "WAV file saved as test.wav"
      [] p = "test.ogg"  -> "OGG/Vorbis file saved as test.ogg"
      [] p = "test.opus" -> "Opus file saved as test.opus"
      [] p = "test.flac" -> "FLAC file saved as test.flac"
      [] OTHER           -> "AAC file saved as test.aac"

AacWarning == "Warning: Failed to create AAC file (ffmpeg/aac encoder may not be available): "
FinalLine == "\nAll audio files generated successfully!"

\* The statement order of each script: the step that follows `step`.
FollowingOpusFirst(p, step) ==
    IF p = "makewave"
    THEN CASE step = "check"  -> "synth"
           [] step = "synth"  -> "decode"
           [] step = "decode" -> "opus"
           [] step = "opus"   -> "wav"
           [] step = "wav"    -> "ogg"
           [] step = "ogg"    -> "flac"
           [] step = "flac"   -> "aac"
           [] step = "aac"    -> "final"
           [] OTHER           -> "done"
    ELSE CASE step = "check"  -> "load"
           [] step = "load"   -> "synth"
           [] step = "synth"  -> "decode"
           [] step = "decode" -> "wav"
           [] OTHER           -> "done"
Following(p, step) ==
    IF p = "makewave"
    THEN CASE step = "check"  -> "synth"
           [] step = "synth"  -> "decode"
           [] step = "decode" -> "wav"
           [] step = "wav"    -> "ogg"
           [] step = "ogg"    -> "opus"
           [] step = "opus"   -> "flac"
           [] step = "flac"   -> "aac"
           [] step = "aac"    -> "final"
           [] OTHER           -> "done"
    ELSE CASE step = "check"  -> "load"
           [] step = "load"   -> "synth"
           [] step = "synth"  -> "decode"
           [] step = "decode" -> "wav"
           [] OTHER           -> "done"

(* ------------------------------- state --------------------------------- *)

Active(r) == pc[r] \notin {"idle", "done"}

\* No later run has started since run r did.
Latest(r) == \A q \in Runs : q > r => pc[q] = "idle"

Init ==
    /\ fs \in InitDirs
    /\ prog = [r \in Runs |-> "none"]
    /\ argv = [r \in Runs |-> <<>>]
    /\ pc = [r \in Runs |-> "idle"]
    /\ audio = [r \in Runs |-> NoAudio]
    /\ out = [r \in Runs |-> <<>>]
    /\ exit = [r \in Runs |-> -1]
    /\ failedAt = [r \in Runs |-> "none"]
    /\ ran = [r \in Runs |-> <<>>]
    /\ synths = [r \in Runs |-> <<>>]
    /\ wrote = [r \in Runs |-> EmptyDir]
    /\ start = [r \in Runs |-> EmptyDir]
    /\ overlapped = [r \in Runs |-> FALSE]

(* --------------------------- step outcomes ----------------------------- *)

\* History: run r took a step while another run was between start and exit.
Ticked(r) ==
    overlapped' =
        [q \in Runs |->
            overlapped[q] \/ ((\E o \in Runs \ {r} : Active(o)) /\ (q = r \/ Active(q)))]

\* The statement(s) of `step` completed; `lines` were printed; control moves on.
Proceed(r, step, lines) ==
    /\ pc' = [pc EXCEPT ![r] = Following(prog[r], step)]
    /\ ran' = [ran EXCEPT ![r] = Append(@, step)]
    /\ out' = [out EXCEPT ![r] = @ \o lines]
    /\ exit' = [exit EXCEPT ![r] = IF Following(prog[r], step) = "done" THEN 0 ELSE @]
    /\ UNCHANGED failedAt
    /\ Ticked(r)

\* An exception nobody catches: traceback, exit status 1, nothing more runs.
AbortButContinue(r, step) ==
    /\ pc' = [pc EXCEPT ![r] = Following(prog[r], step)]
    /\ ran' = [ran EXCEPT ![r] = Append(@, step)]
    /\ exit' = [exit EXCEPT ![r] = IF Following(prog[r], step) = "done" THEN 0 ELSE @]
    /\ failedAt' = [failedAt EXCEPT ![r] = step]
    /\ UNCHANGED out
    /\ Ticked(r)
Abort(r, step) ==
    /\ pc' = [pc EXCEPT ![r] = "done"]
    /\ ran' = [ran EXCEPT ![r] = Append(@, step)]
    /\ exit' = [exit EXCEPT ![r] = 1]
    /\ failedAt' = [failedAt EXCEPT ![r] = step]
    /\ UNCHANGED out
    /\ Ticked(r)

\* A completed write of f at path p (open for writing truncates: the old
\* content is replaced).
Write(r, p, f) ==
    /\ fs' = [fs EXCEPT ![p] = f]
    /\ wrote' = [wrote EXCEPT ![r][p] = f]

\* A write that raised: the path is untouched (the failure came before the
\* output was opened) or holds a truncated stub (it came after).
FailedWrite(r, p) ==
    /\ \/ fs' = fs
       \/ fs' = [fs EXCEPT ![p] = Partial(r)]
    /\ UNCHANGED wrote

(* ------------------------------ actions -------------------------------- *)

\* The operator starts a script in the directory with text tokens from `lists`.
Start(r, lists) ==
    /\ pc[r] = "idle"
    /\ \E p \in Programs, a \in lists :
        /\ prog' = [prog EXCEPT ![r] = p]
        /\ argv' = [argv EXCEPT ![r] = <<ScriptName(p)>> \o a]
    /\ pc' = [pc EXCEPT ![r] = "check"]
    /\ start' = [start EXCEPT ![r] = fs]
    /\ UNCHANGED <<fs, audio, out, exit, failedAt, ran, synths, wrote, overlapped>>

\* if len(sys.argv) < 2: print usage; sys.exit(1)
CheckArgs(r) ==
    /\ pc[r] = "check"
    /\ \/ /\ MissingText(argv[r])
          /\ pc' = [pc EXCEPT ![r] = "done"]
          /\ ran' = [ran EXCEPT ![r] = Append(@, "check")]
          /\ out' = [out EXCEPT ![r] = Append(@, UsageLine(prog[r]))]
          /\ exit' = [exit EXCEPT ![r] = 1]
          /\ UNCHANGED failedAt
          /\ Ticked(r)
       \/ /\ ~MissingText(argv[r])
          /\ Proceed(r, "check", <<>>)
    /\ UNCHANGED <<fs, prog, argv, audio, synths, wrote, start>>

\* selfhosted: tts = TTS(model_name)
LoadModel(r) ==
    /\ pc[r] = "load"
    /\ \/ Proceed(r, "load", <<>>)
       \/ Abort(r, "load")
    /\ UNCHANGED <<fs, prog, argv, audio, synths, wrote, start>>

\* makewave: gTTS(text, lang="en").save("test.mp3")
\* selfhosted: tts.tts_to_file(text=text, file_path="test.wav")
SynthTargetCopied(p) == Mp3Path
SynthTarget(p) == IF p = "makewave" THEN Mp3Path ELSE WavPath
SynthFormat(p) == IF p = "makewave" THEN "mp3" ELSE "wav"

Synthesize(r) ==
    /\ pc[r] = "synth"
    /\ synths' = [synths EXCEPT ![r] = Append(@, Text(r))]
    /\ \/ /\ \E f \in SynthFormats :
                Write(r, SynthTarget(prog[r]),
                      File(SynthFormat(prog[r]), f.rate, f.ch, f.width, r, r))
          /\ Proceed(r, "synth", <<>>)
       \/ /\ FailedWrite(r, SynthTarget(prog[r]))
          /\ Abort(r, "synth")
    /\ UNCHANGED <<prog, argv, audio, start>>

\* audio = AudioSegment.from_mp3(mp3_path) / from_wav(wav_path), then
\* audio.set_frame_rate(..).set_channels(1).set_sample_width(2)
Decode(r) ==
    /\ pc[r] = "decode"
    /\ \/ /\ fs[SynthTarget(prog[r])].kind = "audio"
          /\ audio' = [audio EXCEPT ![r] =
                          Normalized(prog[r], Decoded(fs[SynthTarget(prog[r])]))]
          /\ Proceed(r, "decode", <<>>)
       \/ /\ Abort(r, "decode")
          /\ UNCHANGED audio
    /\ UNCHANGED <<fs, prog, argv, synths, wrote, start>>

\* audio.export(wav_path, format="wav"); print(...)
ExportWav(r) ==
    /\ pc[r] = "wav"
    /\ \/ /\ Write(r, WavPath, Exported(audio[r], "wav", r))
          /\ Proceed(r, "wav", <<SavedLine(WavPath)>>)
       \/ /\ FailedWrite(r, WavPath)
          /\ Abort(r, "wav")
    /\ UNCHANGED <<prog, argv, audio, synths, start>>

\* audio.export(ogg_path, format="ogg", codec="libvorbis",
\*              parameters=["-ar", "16000", "-ac", "1"]); print(...)
ExportOgg(r) ==
    /\ pc[r] = "ogg"
    /\ \/ /\ Write(r, OggPath, ExportedWith(audio[r], "ogg", 16000, 1, r))
          /\ Proceed(r, "ogg", <<SavedLine(OggPath)>>)
       \/ /\ FailedWrite(r, OggPath)
          /\ Abort(r, "ogg")
    /\ UNCHANGED <<prog, argv, audio, synths, start>>

\* subprocess.run(["opusenc", "--bitrate", "64", wav_path, opus_path],
\*                check=True); print(...)
EncodeOpus(r) ==
    /\ pc[r] = "opus"
    /\ \/ /\ fs[OpusInput].kind = "audio"
          /\ Write(r, OpusPath, Opusenc(fs[OpusInput], r))
          /\ Proceed(r, "opus", <<SavedLine(OpusPath)>>)
       \/ /\ FailedWrite(r, OpusPath)
          /\ Abort(r, "opus")
    /\ UNCHANGED <<prog, argv, audio, synths, start>>

\* audio.export(flac_path, format="flac", parameters=["-ar", "16000", "-ac", "1"])
ExportFlac(r) ==
    /\ pc[r] = "flac"
    /\ \/ /\ Write(r, FlacPath, ExportedWith(audio[r], "flac", 16000, 1, r))
          /\ Proceed(r, "flac", <<SavedLine(FlacPath)>>)
       \/ /\ FailedWrite(r, FlacPath)
          /\ Abort(r, "flac")
    /\ UNCHANGED <<prog, argv, audio, synths, start>>

\* except Exception as e: print(f"Warning: Failed to create AAC file ...: {e}")
AacUncaught(r) == Abort(r, "aac")
AacExcept(r) ==
    /\ pc' = [pc EXCEPT ![r] = Following(prog[r], "aac")]
    /\ ran' = [ran EXCEPT ![r] = Append(@, "aac")]
    /\ out' = [out EXCEPT ![r] = Append(@, AacWarning)]
    /\ failedAt' = [failedAt EXCEPT ![r] = "aac"]
    /\ UNCHANGED exit
    /\ Ticked(r)

\* try: audio.export(aac_path, format="aac", codec="aac",
\*          parameters=["-ar", "16000", "-ac", "1", "-b:a", "128k"]); print(...)
ExportAac(r) ==
    /\ pc[r] = "aac"
    /\ \/ /\ Write(r, AacPath, ExportedWith(audio[r], "aac", 16000, 1, r))
          /\ Proceed(r, "aac", <<SavedLine(AacPath)>>)
       \/ /\ FailedWrite(r, AacPath)
          /\ AacExcept(r)
    /\ UNCHANGED <<prog, argv, audio, synths, start>>

\* print("\nAll audio files generated successfully!"), then the script ends.
Final(r) ==
    /\ pc[r] = "final"
    /\ Proceed(r, "final", <<FinalLine>>)
    /\ UNCHANGED <<fs, prog, argv, audio, synths, wrote, start>>

(* --------------------------- specifications ---------------------------- *)

\* Runs one after the other: a script is started once the previous one exited.
InTurn(r) == \A q \in Runs : q < r => pc[q] = "done"

Next ==
    \/ \E r \in Runs : InTurn(r) /\ Start(r, ArgLists)
    \/ \E r \in Runs : InTurn(r) /\ CheckArgs(r)
    \/ \E r \in Runs : InTurn(r) /\ LoadModel(r)
    \/ \E r \in Runs : InTurn(r) /\ Synthesize(r)
    \/ \E r \in Runs : InTurn(r) /\ Decode(r)
    \/ \E r \in Runs : InTurn(r) /\ ExportWav(r)
    \/ \E r \in Runs : InTurn(r) /\ ExportOgg(r)
    \/ \E r \in Runs : InTurn(r) /\ EncodeOpus(r)
    \/ \E r \in Runs : InTurn(r) /\ ExportFlac(r)
    \/ \E r \in Runs : InTurn(r) /\ ExportAac(r)
    \/ \E r \in Runs : InTurn(r) /\ Final(r)

Spec == Init /\ [][Next]_vars

\* Runs started whenever the operator likes, overlapping or not: the scripts
\* take no lock.  Each run is given a single token here.
OneWord == {<<w>> : w \in Words}

NextOverlapping ==
    \/ \E r \in Runs : Start(r, OneWord)
    \/ \E r \in Runs : CheckArgs(r)
    \/ \E r \in Runs : LoadModel(r)
    \/ \E r \in Runs : Synthesize(r)
    \/ \E r \in Runs : Decode(r)
    \/ \E r \in Runs : ExportWav(r)
    \/ \E r \in Runs : ExportOgg(r)
    \/ \E r \in Runs : EncodeOpus(r)
    \/ \E r \in Runs : ExportFlac(r)
    \/ \E r \in Runs : ExportAac(r)
    \/ \E r \in Runs : Final(r)

SpecOverlapping == Init /\ [][NextOverlapping]_vars

(* ------------------------------- claims -------------------------------- *)

InSeq(x, s) == \E i \in 1..Len(s) : s[i] = x
IsPrefix(s, t) == Len(s) <= Len(t) /\ \A i \in 1..Len(s) : s[i] = t[i]

Succeeded(r) == pc[r] = "done" /\ exit[r] = 0
WrittenBy(r, p) == wrote[r][p].kind = "audio" /\ wrote[r][p].writer = r

\* C1: in makewave.py, when the AAC export fails after every earlier step
\* succeeded, the run exits 0 having printed, in this order, the four saved
\* lines (the FLAC one among them), the AAC warning and the final success line.
C1_AacFailureIsNotFatal ==
    \A r \in Runs :
        (prog[r] = "makewave" /\ pc[r] = "done" /\ failedAt[r] = "aac") =>
            /\ exit[r] = 0
            /\ out[r] = << "WAV file saved as test.wav",
                           "OGG/Vorbis file saved as test.ogg",
                           "Opus file saved as test.opus",
                           "FLAC file saved as test.flac",
                           "Warning: Failed to create AAC file (ffmpeg/aac encoder may not be available): ",
                           "\nAll audio files generated successfully!" >>

C1_Witness ==
    \E r \in Runs : prog[r] = "makewave" /\ pc[r] = "done" /\ failedAt[r] = "aac"

\* C3: a run given no text token prints the usage line, exits 1, reaches no
\* synthesis, decode, export or encoder step and leaves every file as it was.
C3_NoTextNoWork ==
    \A r \in Runs :
        (pc[r] = "done" /\ Len(argv[r]) = 1) =>
            /\ out[r] = << IF prog[r] = "makewave"
                           THEN "Usage: python makewave.py \"Your text here\""
                           ELSE "Usage: python generate_wav.py \"Your text here\"" >>
            /\ exit[r] = 1
            /\ ran[r] = <<"check">>
            /\ synths[r] = <<>>
            /\ wrote[r] = EmptyDir
            /\ Latest(r) => fs = start[r]

C3_Witness ==
    \E r \in Runs :
        pc[r] = "done" /\ Len(argv[r]) = 1 /\ start[r]["test.wav"].kind = "audio"

\* C10: a makewave.py run takes its steps in the order WAV, OGG, Opus, FLAC,
\* AAC; the Opus encoder starts only after this run's WAV export succeeded;
\* a saved line is printed only for a file this run wrote; the final line is
\* printed only if this run wrote test.wav, test.ogg, test.opus and test.flac.
C10_FixedOrder ==
    \A r \in Runs :
        prog[r] = "makewave" =>
            /\ IsPrefix(ran[r], <<"check", "synth", "decode", "wav", "ogg", "opus",
                                  "flac", "aac", "final">>)
            /\ (pc[r] = "opus" \/ InSeq("opus", ran[r])) => WrittenBy(r, "test.wav")
            /\ InSeq("WAV file saved as test.wav", out[r]) => WrittenBy(r, "test.wav")
            /\ InSeq("OGG/Vorbis file saved as test.ogg", out[r]) => WrittenBy(r, "test.ogg")
            /\ InSeq("Opus file saved as test.opus", out[r]) => WrittenBy(r, "test.opus")
            /\ InSeq("FLAC file saved as test.flac", out[r]) => WrittenBy(r, "test.flac")
            /\ InSeq("AAC file saved as test.aac", out[r]) => WrittenBy(r, "test.aac")
            /\ InSeq("\nAll audio files generated successfully!", out[r]) =>
                   \A p \in {"test.wav", "test.ogg", "test.opus", "test.flac"} :
                       WrittenBy(r, p)

C10_Witness ==
    \E r \in Runs :
        /\ prog[r] = "makewave"
        /\ Succeeded(r)
        /\ InSeq("\nAll audio files generated successfully!", out[r])
        /\ InSeq("AAC file saved as test.aac", out[r])

\* The place of token k in the joined text: after the tokens before it and one
\* space for each.
RECURSIVE Offset(_, _)
Offset(toks, k) == IF k = 1 THEN 0 ELSE Offset(toks, k - 1) + Len(toks[k - 1]) + 1

IsJoined(t, toks) ==
    /\ Len(t) = Offset(toks, Len(toks) + 1) - 1
    /\ \A k \in 1..Len(toks) :
        /\ \A i \in 1..Len(toks[k]) : t[Offset(toks, k) + i] = toks[k][i]
        /\ k < Len(toks) => t[Offset(toks, k + 1)] = " "

\* C8: a run given at least one token synthesizes at most once, only the text
\* made of all its tokens in order with one space between neighbours, and
\* exactly once if it gets as far as the synthesis step.
C8_OneSynthesisOfJoinedText ==
    \A r \in Runs :
        Len(argv[r]) >= 2 =>
            /\ Len(synths[r]) <= 1
            /\ \A i \in 1..Len(synths[r]) : IsJoined(synths[r][i], Tail(argv[r]))
            /\ (InSeq("synth", ran[r]) \/ Succeeded(r)) => Len(synths[r]) = 1

C8_Witness ==
    \E r \in Runs :
        /\ argv[r] = << "makewave.py", <<"h", "i">>, <<"y", "o">> >>
        /\ synths[r] = << <<"h", "i", " ", "y", "o">> >>
        /\ Succeeded(r)

\* C6: after a successful selfhosted-makewave.py run, test.wav is the only
\* path the run wrote, every other file is as it was before the run, and
\* test.wav is a mono, 16000 Hz, 16-bit WAV file.
C6_SelfhostedWritesOnlyWav ==
    \A r \in Runs :
        (prog[r] = "selfhosted" /\ Succeeded(r)) =>
            /\ \A p \in Paths \ {"test.wav"} : wrote[r][p] = NoFile
            /\ Latest(r) =>
                /\ \A p \in Paths \ {"test.wav"} : fs[p] = start[r][p]
                /\ Shape(fs["test.wav"]) =
                       [kind |-> "audio", fmt |-> "wav", rate |-> 16000, ch |-> 1, width |-> 2]
                /\ fs["test.wav"].writer = r

C6_Witness ==
    \E r \in Runs :
        /\ prog[r] = "selfhosted" /\ Succeeded(r) /\ Latest(r)
        /\ start[r]["test.ogg"].kind = "audio"
        /\ start[r]["test.wav"].rate = 44100

HardFailed(r) == pc[r] = "done" /\ failedAt[r] \notin {"none", "aac"}

\* The path the step that failed was writing, if it writes one.
FailingTarget(r) ==
    CASE failedAt[r] = "synth" -> (IF prog[r] = "makewave" THEN "test.mp3" ELSE "test.wav")
      [] failedAt[r] = "wav"   -> "test.wav"
      [] failedAt[r] = "ogg"   -> "test.ogg"
      [] failedAt[r] = "opus"  -> "test.opus"
      [] failedAt[r] = "flac"  -> "test.flac"
      [] OTHER                 -> "none"

\* The lines the completed steps print, in order.
RECURSIVE LinesOf(_)
LinesOf(steps) ==
    IF steps = <<>> THEN <<>>
    ELSE (CASE Head(steps) = "wav"  -> <<"WAV file saved as test.wav">>
            [] Head(steps) = "ogg"  -> <<"OGG/Vorbis file saved as test.ogg">>
            [] Head(steps) = "opus" -> <<"Opus file saved as test.opus">>
            [] Head(steps) = "flac" -> <<"FLAC file saved as test.flac">>
            [] OTHER                -> <<>>) \o LinesOf(Tail(steps))

\* What C2 says of every step failure but the AAC one, except for the files.
FailFast(r) ==
    /\ exit[r] > 0
    /\ ran[r][Len(ran[r])] = failedAt[r]
    /\ out[r] = LinesOf(SubSeq(ran[r], 1, Len(ran[r]) - 1))
    /\ ~InSeq("\nAll audio files generated successfully!", out[r])

\* C2 as stated: a failure of any step but makewave.py's AAC export ends the
\* run there with a non-zero status, nothing later runs or is printed, and
\* every file an earlier step of the run wrote is in place unchanged.
C2_AsStated ==
    \A r \in Runs :
        HardFailed(r) =>
            /\ FailFast(r)
            /\ Latest(r) =>
                \A p \in Paths : wrote[r][p].kind = "audio" => fs[p] = wrote[r][p]

\* C2 amended: as C2, but a file an earlier step wrote is unchanged only if
\* the failing step does not write the same path; at that path (test.wav in
\* selfhosted-makewave.py's re-export) it is unchanged or a truncated stub.
C2_FailFastKeepsOtherFiles ==
    \A r \in Runs :
        HardFailed(r) =>
            /\ FailFast(r)
            /\ Latest(r) =>
                \A p \in Paths :
                    wrote[r][p].kind = "audio" =>
                        \/ fs[p] = wrote[r][p]
                        \/ p = FailingTarget(r) /\ fs[p] = Partial(r)

C2_Witness ==
    \E r \in Runs :
        /\ prog[r] = "makewave" /\ HardFailed(r) /\ failedAt[r] = "flac" /\ Latest(r)
        /\ fs["test.flac"] = Partial(r)
        /\ fs["test.opus"].writer = r /\ fs["test.opus"].kind = "audio"

AacUnavailable(r) == prog[r] = "makewave" /\ Succeeded(r) /\ failedAt[r] = "aac"

OthersExist(r) ==
    \A p \in {"test.wav", "test.ogg", "test.opus", "test.flac"} :
        fs[p].kind = "audio" /\ fs[p].writer = r

\* C4 as stated: after a successful makewave.py run whose AAC export failed,
\* test.wav, test.ogg, test.opus and test.flac exist and test.aac does not.
C4_AsStated ==
    \A r \in Runs :
        (AacUnavailable(r) /\ Latest(r)) =>
            OthersExist(r) /\ fs["test.aac"].kind = "absent"

\* C4 amended: the four files exist, written by this run, and test.aac holds
\* no audio of this run: it is what it was before the run (absent if it was
\* absent) or the truncated stub the failed export left.
C4_NoAacOfThisRun ==
    \A r \in Runs :
        (AacUnavailable(r) /\ Latest(r)) =>
            /\ OthersExist(r)
            /\ fs["test.aac"] = start[r]["test.aac"] \/ fs["test.aac"] = Partial(r)

C4_Witness ==
    \E r \in Runs :
        AacUnavailable(r) /\ Latest(r) /\ OthersExist(r) /\ fs["test.aac"].kind = "absent"

Pcm16Mono(f, rate) ==
    Shape(f) = [kind |-> "audio", fmt |-> "wav", rate |-> rate, ch |-> 1, width |-> 2]

\* C5 as stated: after a successful run of either generator test.wav is PCM
\* WAV, 16-bit, mono, 16000 Hz.
C5_AsStated ==
    \A r \in Runs :
        (Succeeded(r) /\ Latest(r)) => Pcm16Mono(fs["test.wav"], 16000)

\* C5 amended: after a successful run test.wav is PCM WAV, 16-bit, mono, at
\* 16000 Hz for selfhosted-makewave.py and at 48000 Hz for makewave.py.
C5_WavFormatPerGenerator ==
    \A r \in Runs :
        (Succeeded(r) /\ Latest(r)) =>
            Pcm16Mono(fs["test.wav"], IF prog[r] = "makewave" THEN 48000 ELSE 16000)

C5_Witness ==
    \E r \in Runs :
        /\ prog[r] = "makewave" /\ Succeeded(r) /\ Latest(r)
        /\ start[r]["test.mp3"].kind = "absent"
        /\ fs["test.mp3"].rate = 44100 /\ fs["test.mp3"].ch = 2

\* Run 1 then run 2: the same generator, the same tokens, both successful.
SameTwice ==
    /\ Succeeded(1) /\ Succeeded(2)
    /\ prog[1] = prog[2]
    /\ argv[1] = argv[2]

OutputPaths == {"test.wav", "test.ogg", "test.opus", "test.flac", "test.aac"}

\* C7 as stated: after the second of two successive successful runs of one
\* generator on one text, the directory holds the same files, of the same
\* format, sample rate, channel count and bit depth, as after the first.
C7_AsStated ==
    SameTwice =>
        /\ \A p \in OutputPaths : Shape(fs[p]) = Shape(start[2][p])
        /\ fs["test.mp3"].kind = start[2]["test.mp3"].kind

\* C7 amended: the same holds of every file but test.aac, and of test.aac too
\* when the AAC export succeeded in both runs.
C7_SameFilesButBestEffortAac ==
    SameTwice =>
        /\ \A p \in OutputPaths \ {"test.aac"} : Shape(fs[p]) = Shape(start[2][p])
        /\ fs["test.mp3"].kind = start[2]["test.mp3"].kind
        /\ (failedAt[1] = "none" /\ failedAt[2] = "none") =>
               Shape(fs["test.aac"]) = Shape(start[2]["test.aac"])

C7_Witness ==
    /\ SameTwice
    /\ prog[1] = "makewave"
    /\ failedAt[1] = "none" /\ failedAt[2] = "none"
    /\ fs["test.mp3"].rate # start[2]["test.mp3"].rate

\* A complete file of run r whose samples come from another synthesis.
Foreign(r, p) == wrote[r][p].kind = "audio" /\ wrote[r][p].origin # r

\* C9: two runs in one directory can race on the fixed-name files, and only
\* an overlap does it: a run that no other run overlapped wrote nothing but
\* its own synthesis, while a makewave.py run that overlapped another can
\* exit 0 having encoded into test.opus a test.wav the other run wrote
\* (C9_Race is such a state).
C9_ForeignOnlyIfOverlapped ==
    \A r \in Runs :
        ~overlapped[r] => \A p \in Paths : ~Foreign(r, p)

C9_Race ==
    \E r \in Runs :
        /\ prog[r] = "makewave" /\ Succeeded(r) /\ overlapped[r]
        /\ Foreign(r, "test.opus")
        /\ wrote[r]["test.wav"].origin = r

====
